---- MODULE Spec2Model ----
(***************************************************************************)
(* Model of backend.py: the identifier resolver (extract_id_from_input),   *)
(* the three upserts of the moderation store, the start-up of the          *)
(* enrichment client (_sp) and the three HTTP handlers.                    *)
(*                                                                         *)
(* Python strings are sequences of one-character strings, so that strip,   *)
(* split, startswith, the substring test and the regular expression are    *)
(* computed on the characters as the code computes them.  Python's None    *)
(* (and SQL NULL, which psycopg2 maps it to) is the value None below,      *)
(* which is no string of characters.                                       *)
(***************************************************************************)
EXTENDS Integers, Sequences, FiniteSets, TLC

None == <<"None">>

\* Python truthiness of an optional string: None and "" are falsy.
Truthy(x) == x # None /\ x # <<>>

Letters ==
  {"a","b","c","d","e","f","g","h","i","j","k","l","m","n","o","p","q","r","s",
   "t","u","v","w","x","y","z","A","B","C","D","E","F","G","H","I","J","K","L",
   "M","N","O","P","Q","R","S","T","U","V","W","X","Y","Z"}

Digits == {"0","1","2","3","4","5","6","7","8","9"}

\* The character class [A-Za-z0-9] of SPOTIFY_ID_RE.
Alnum == Letters \cup Digits

\* The repetition count {22} of SPOTIFY_ID_RE.
IdLen == 22

\* What str.strip() removes.
Whitespace == {" ", "\t", "\n", "\r"}

\* The characters urlsplit accepts in a scheme.
SchemeChars == Alnum \cup {"+", "-", "."}

----------------------------------------------------------------------------
\* String helpers (Python str methods used by the code).  An intermediate
\* result that is used more than once is bound as the element of a one-element
\* set, { F(x) : x \in {e} }, so that e is evaluated once.

\* The element of a one-element set.
Only(S) == CHOOSE x \in S : TRUE

Min(S) == CHOOSE i \in S : \A j \in S : i <= j
Max(S) == CHOOSE i \in S : \A j \in S : i >= j

\* s[i:] for a 1-based i.
Tail_(s, i) == SubSeq(s, i, Len(s))

\* s.startswith(p)
StartsWith(s, p) == Len(s) >= Len(p) /\ SubSeq(s, 1, Len(p)) = p

\* p in s
Contains(s, p) ==
  \E i \in 1..(Len(s) - Len(p) + 1) : SubSeq(s, i, i + Len(p) - 1) = p

\* s.strip(chars): removes the leading and trailing characters in chars.
StripChars(s, chars) ==
  Only({ IF keep = {} THEN <<>> ELSE SubSeq(s, Min(keep), Max(keep)) :
         keep \in {{i \in 1..Len(s) : s[i] \notin chars}} })

\* s.strip()
Strip(s) == StripChars(s, Whitespace)

\* s.find(c) over a set of characters: least index of a character of cs, or 0.
FindAny(s, cs) ==
  Only({ IF hits = {} THEN 0 ELSE Min(hits) :
         hits \in {{i \in 1..Len(s) : s[i] \in cs}} })

\* The segment of s between the cuts at positions lo and hi.
Between(s, lo, hi) == SubSeq(s, lo + 1, hi - 1)

\* s.split(sep) for a one-character separator: always at least one segment.
\* The k-th segment lies between the (k-1)-th and the k-th separator.
SplitAt(s, P) ==
  [k \in 1..(Cardinality(P) + 1) |->
     Between(s,
             IF k = 1 THEN 0
             ELSE CHOOSE i \in P : Cardinality({j \in P : j <= i}) = k - 1,
             IF k = Cardinality(P) + 1 THEN Len(s) + 1
             ELSE CHOOSE i \in P : Cardinality({j \in P : j <= i}) = k)]

Split(s, sep) ==
  Only({ SplitAt(s, P) : P \in {{i \in 1..Len(s) : s[i] = sep}} })

\* SPOTIFY_ID_RE.search(s).group(1): the leftmost run of IdLen alphanumeric
\* characters, or None when search returns no match.
SPOTIFY_ID_RE_search(s) ==
  Only({ IF starts = {} THEN None
         ELSE SubSeq(s, Min(starts), Min(starts) + IdLen - 1) :
         starts \in {{i \in 1..(Len(s) - IdLen + 1) :
                        \A j \in i..(i + IdLen - 1) : s[j] \in Alnum}} })

\* urlsplit: the url has a scheme (a letter, then scheme characters, up to
\* the first ':').
HasScheme(v, i) ==
  i > 1 /\ v[1] \in Letters /\ \A j \in 1..(i - 1) : v[j] \in SchemeChars

\* urlsplit: the path is what is left up to the first '?' or '#'.
PathOf(url) ==
  Only({ IF q = 0 THEN url ELSE SubSeq(url, 1, q - 1) :
         q \in {FindAny(url, {"?", "#"})} })

\* urlsplit: a netloc is introduced by '//' and ended by '/', '?' or '#'.
SplitNetloc(after) ==
  Only({ IF d = 0 THEN [netloc |-> after, path |-> <<>>]
         ELSE [netloc |-> SubSeq(after, 1, d - 1),
               path |-> Only({ PathOf(url) : url \in {Tail_(after, d)} })] :
         d \in {FindAny(after, {"/", "?", "#"})} })

\* urlsplit, after the scheme has been taken off.
AfterScheme(rest) ==
  IF StartsWith(rest, <<"/", "/">>)
  THEN Only({ SplitNetloc(after) : after \in {Tail_(rest, 3)} })
  ELSE [netloc |-> <<>>, path |-> PathOf(rest)]

\* urllib.parse.urlparse(v), restricted to .netloc and .path.
urlparse(v) ==
  Only({ IF HasScheme(v, i)
         THEN Only({ AfterScheme(rest) : rest \in {Tail_(v, i + 1)} })
         ELSE AfterScheme(v) :
         i \in {FindAny(v, {":"})} })

spotify == <<"s","p","o","t","i","f","y">>

\* Lines 132-134 mutated: segments 0 and 1 instead of 1 and 2.
UriPartsShifted(parts) ==
  IF Len(parts) >= 3 THEN <<parts[1], parts[2]>> ELSE <<>>

\* Lines 132-134 of extract_id_from_input: kind and id from the segments.
\* <<>> when the strategy does not return.
UriParts(parts) ==
  IF Len(parts) >= 3 THEN <<parts[2], parts[3]>> ELSE <<>>

\* Strategy 1 of extract_id_from_input: the "spotify:" URI form.
UriStrategy(v) ==
  IF StartsWith(v, spotify \o <<":">>)
  THEN Only({ UriParts(parts) : parts \in {Split(v, ":")} })
  ELSE <<>>

\* Lines 139-143 of extract_id_from_input.
UrlParts(parts) ==
  IF Len(parts) >= 2
  THEN <<parts[1], Only({ Split(x, "?")[1] : x \in {parts[2]} })>>
  ELSE <<None, parts[1]>>

\* Strategy 2 of extract_id_from_input: a URL whose host contains "spotify".
UrlStrategyOf(p) ==
  IF Truthy(p.netloc) /\ Contains(p.netloc, spotify)
  THEN Only({ Only({ UrlParts(parts) : parts \in {Split(path, "/")} }) :
              path \in {StripChars(p.path, {"/"})} })
  ELSE <<>>

UrlStrategy(v) == Only({ UrlStrategyOf(p) : p \in {urlparse(v)} })

\* Strategies 3 and 4: the bare-ID search, then the stripped text itself.
BareOrRaw(v) ==
  Only({ IF m # None THEN <<None, m>> ELSE <<None, v>> :
         m \in {SPOTIFY_ID_RE_search(v)} })

\* Lines 130-149 of extract_id_from_input, v being value.strip().
Strategies(v) ==
  Only({ IF uri # <<>> THEN uri
         ELSE Only({ IF url # <<>> THEN url ELSE BareOrRaw(v) :
                     url \in {UrlStrategy(v)} }) :
         uri \in {UriStrategy(v)} })

\* extract_id_from_input(value) -> <<kind, id>>
extract_id_from_input(value) ==
  IF ~Truthy(value) THEN <<None, None>>
  ELSE Only({ Strategies(v) : v \in {Strip(value)} })

----------------------------------------------------------------------------
\* Request inputs, catalog answers and store conditions the model draws from.

ID_A == [i \in 1..IdLen |-> "a"]

\* An id-like token longer than IdLen: ID_A followed by two more characters.
ID_LONG == ID_A \o <<"X", "Y">>

track == <<"t","r","a","c","k">>
playlist == <<"p","l","a","y","l","i","s","t">>
user == <<"u","s","e","r">>
bob == <<"b","o","b">>
deezer == <<"d","e","e","z","e","r">>
host == <<"h","t","t","p","s",":","/","/","o","p","e","n",".">> \o spotify
          \o <<".","c","o","m","/">>

Inputs ==
  { <<>>,                                              \* ""
    <<" ", " ">>,                                      \* "  "
    spotify \o <<":">> \o track \o <<":">> \o ID_A,    \* spotify:track:<id>
    <<" ">> \o spotify \o <<":">> \o playlist \o <<":">> \o ID_A,
    spotify \o <<":">> \o track \o <<":">> \o ID_LONG,
    spotify \o <<":">> \o user \o <<":">> \o bob,      \* spotify:user:bob
    spotify \o <<":", ":">>,                           \* spotify::
    deezer \o <<":">> \o track \o <<":">> \o ID_A,     \* deezer:track:<id>
    host \o playlist \o <<"/">> \o ID_A \o <<"?","s","i","=","1">>,
    host }                                             \* https://open.spotify.com/

NameX == <<"X">>
NameY == <<"Y">>
ArtistId == <<"A","1">>
ArtistName == <<"A","N">>
P1 == <<"P","1">>

\* What _sp.track(id) can do: raise, or return a dict t.
TrackOutcomes ==
  { [ok |-> FALSE, name |-> None, artists |-> <<>>],
    [ok |-> TRUE, name |-> NameX, artists |-> <<>>],
    [ok |-> TRUE, name |-> NameY,
     artists |-> <<[id |-> ArtistId, name |-> ArtistName]>>] }

\* What _sp.playlist(id) can do: raise, or return a dict p / plist.
PlaylistOutcomes ==
  { [ok |-> FALSE, name |-> None, owner |-> <<>>],
    [ok |-> TRUE, name |-> NameX, owner |-> <<>>],
    [ok |-> TRUE, name |-> NameY, owner |-> <<[id |-> P1]>>] }

\* The store during a request: no connection, a connection on which
\* ensure_tables raises, one on which the upsert raises, or a working one.
DbStates == {"down", "ensure_fails", "upsert_fails", "ok"}

\* Arguments the store's operations are called with when they are exercised
\* on their own: keys, and (song_name, artist_id, artist_name) triples.
StoreIds == {ID_A, P1}
SongArgs ==
  { <<None, None, None>>, <<NameX, None, None>>,
    <<NameY, ArtistId, ArtistName>>, <<None, ArtistId, None>> }
PlaylistNames == {None, NameX, NameY}

\* Bounds of the model: readings of the store's clock, requests served, and
\* upserts executed when the store is exercised on its own.
MaxTime == 2
MaxRequests == 1
MaxUpserts == 2

----------------------------------------------------------------------------
VARIABLES
  proc,           \* "start" before the module body has run, then "serving"
  boot,           \* what happened in the start-up try block
  sp,             \* _sp: "Spotify" or "None"
  now,            \* the reading NOW() gives
  tablesCreated,  \* ensure_tables has run to completion once
  songs,          \* blacklisted_songs: song_id -> row
  playlists,      \* user_playlists: playlist_id -> row
  profiles,       \* whitelisted_profiles: profile_id -> row
  last,           \* the last request and its response
  nreq            \* requests served

vars == <<proc, boot, sp, now, tablesCreated, songs, playlists, profiles,
          last, nreq>>

NoRequest ==
  [ep |-> "none", input |-> <<>>, flag |-> TRUE, db |-> "ok",
   kind |-> None, id_or_raw |-> None, id |-> None,
   enrich |-> "notcalled",
   name |-> None, artist_id |-> None, artist_name |-> None, owner |-> None,
   status |-> 0, ok |-> "none", error |-> "",
   ensured |-> FALSE, wrote |-> FALSE, conflict |-> FALSE]

Init ==
  /\ proc = "start"
  /\ boot = [oauth |-> "pending", refresh |-> "pending"]
  /\ sp = "None"
  /\ now = 0
  /\ tablesCreated = FALSE
  /\ songs = <<>>
  /\ playlists = <<>>
  /\ profiles = <<>>
  /\ last = NoRequest
  /\ nreq = 0

----------------------------------------------------------------------------
\* Start-up (module body, lines 26-43).

\* _sp after the start-up block, mutated: a failed SpotifyOAuth construction
\* still leaves a client.
init_sp_always(oauth, refresh) == "Spotify"

\* _sp after the start-up block.  oauth: SpotifyOAuth(...) returns or raises
\* (the outer except then sets _sp = None); refresh: refresh_access_token is
\* not called (no SPOTIFY_REFRESH_TOKEN), returns, or raises.  A raise of the
\* refresh is caught by the inner try/except and line 41 still builds the
\* client.
init_sp(oauth, refresh) ==
  IF oauth = "raises" THEN "None" ELSE "Spotify"

Startup ==
  /\ proc = "start"
  /\ \E oauth \in {"ok", "raises"}, refresh \in {"absent", "ok", "raises"} :
       /\ oauth = "raises" => refresh = "absent"
       /\ boot' = [oauth |-> oauth, refresh |-> refresh]
       /\ sp' = init_sp(oauth, refresh)
  /\ proc' = "serving"
  /\ UNCHANGED <<now, tablesCreated, songs, playlists, profiles, last, nreq>>

\* The store's clock moves on between requests.
Tick ==
  /\ now < MaxTime
  /\ now' = now + 1
  /\ UNCHANGED <<proc, boot, sp, tablesCreated, songs, playlists, profiles,
                 last, nreq>>

----------------------------------------------------------------------------
\* The moderation store.

\* COALESCE mutated: the incoming value always wins.
COALESCE_overwrite(incoming, stored) == incoming

\* COALESCE(EXCLUDED.x, t.x)
COALESCE(incoming, stored) == IF incoming # None THEN incoming ELSE stored

\* upsert_blacklisted_song; t is the reading of NOW().
upsert_blacklisted_song(tbl, song_id, song_name, artist_id, artist_name, fixed, t) ==
  IF song_id \in DOMAIN tbl
  THEN [tbl EXCEPT ![song_id] =
          [song_name |-> COALESCE(song_name, @.song_name),
           artist_id |-> COALESCE(artist_id, @.artist_id),
           artist_name |-> COALESCE(artist_name, @.artist_name),
           fixed |-> fixed,
           created_at |-> @.created_at]]
  ELSE tbl @@ (song_id :> [song_name |-> song_name, artist_id |-> artist_id,
                           artist_name |-> artist_name, fixed |-> fixed,
                           created_at |-> t])

\* upsert_user_playlist_blacklist mutated: on conflict the stored flag is kept.
upsert_user_playlist_blacklist_keepflag(tbl, playlist_id, playlist_name, blacklisted, t) ==
  IF playlist_id \in DOMAIN tbl
  THEN [tbl EXCEPT ![playlist_id] =
          [playlist_name |-> COALESCE(playlist_name, @.playlist_name),
           blacklisted |-> @.blacklisted,
           updated_at |-> t]]
  ELSE tbl @@ (playlist_id :> [playlist_name |-> playlist_name,
                               blacklisted |-> blacklisted,
                               updated_at |-> t])

\* upsert_user_playlist_blacklist; t is the reading of NOW().
upsert_user_playlist_blacklist(tbl, playlist_id, playlist_name, blacklisted, t) ==
  IF playlist_id \in DOMAIN tbl
  THEN [tbl EXCEPT ![playlist_id] =
          [playlist_name |-> COALESCE(playlist_name, @.playlist_name),
           blacklisted |-> blacklisted,
           updated_at |-> t]]
  ELSE tbl @@ (playlist_id :> [playlist_name |-> playlist_name,
                               blacklisted |-> blacklisted,
                               updated_at |-> t])

\* upsert_whitelisted_profile mutated: DO UPDATE SET added_at = NOW().
upsert_whitelisted_profile_touch(tbl, profile_id, t) ==
  IF profile_id \in DOMAIN tbl
  THEN [tbl EXCEPT ![profile_id] = [added_at |-> t]]
  ELSE tbl @@ (profile_id :> [added_at |-> t])

\* upsert_whitelisted_profile: ON CONFLICT DO NOTHING.
upsert_whitelisted_profile(tbl, profile_id, t) ==
  IF profile_id \in DOMAIN tbl
  THEN tbl
  ELSE tbl @@ (profile_id :> [added_at |-> t])

\* get_db_conn mutated: a connection object is returned even when connecting
\* failed.
get_db_conn_always(db) == TRUE

\* get_db_conn() returns a connection (TRUE) or None (FALSE).
get_db_conn(db) == db # "down"

\* The tail every handler shares: get_db_conn, ensure_tables, the upsert and
\* the response.  ensured: ensure_tables ran to completion; wrote: the upsert
\* was executed.
StoreStep(db) ==
  IF ~get_db_conn(db)
  THEN [status |-> 500, ok |-> "false", error |-> "DB unavailable",
        ensured |-> FALSE, wrote |-> FALSE]
  ELSE IF db = "ensure_fails"
  THEN [status |-> 500, ok |-> "false", error |-> "str(e)",
        ensured |-> FALSE, wrote |-> FALSE]
  ELSE IF db = "upsert_fails"
  THEN [status |-> 500, ok |-> "false", error |-> "str(e)",
        ensured |-> TRUE, wrote |-> FALSE]
  ELSE [status |-> 200, ok |-> "true", error |-> "",
        ensured |-> TRUE, wrote |-> TRUE]

\* ensure_tables: CREATE TABLE IF NOT EXISTS, three times.
ensure_tables(created) == TRUE

----------------------------------------------------------------------------
\* The handlers.  Each operator computes the handler's locals and response
\* from the request (input, flag), the catalog's answer to the one call the
\* handler may make (cat) and the store's condition (db).

\* The kind-mismatch correction mutated: the resolved id is used as it is.
CorrectKind_skip(kind, id_or_raw, expected) == id_or_raw

\* The kind-mismatch correction of api_blacklist_track and
\* api_blacklist_playlist.
CorrectKind(kind, id_or_raw, expected) ==
  IF Truthy(kind) /\ kind # expected
  THEN Only({ IF m # None THEN m ELSE id_or_raw :
              m \in {SPOTIFY_ID_RE_search(id_or_raw)} })
  ELSE id_or_raw

\* "disabled": _sp is None; "raised": the call raised and the except clause
\* swallowed it; "returned": the call returned a dict.
EnrichResult(cat) ==
  IF sp # "Spotify" THEN "disabled"
  ELSE IF cat.ok THEN "returned" ELSE "raised"

Rejected(ep, input, flag, db, p, error) ==
  [ep |-> ep, input |-> input, flag |-> flag, db |-> db,
   kind |-> p.kind, id_or_raw |-> p.id_or_raw, id |-> p.id,
   enrich |-> "notcalled",
   name |-> None, artist_id |-> None, artist_name |-> None, owner |-> None,
   status |-> 400, ok |-> "false", error |-> error,
   ensured |-> FALSE, wrote |-> FALSE, conflict |-> FALSE]

\* Lines 160-165 of api_blacklist_track: val, kind, id_or_raw, track_id.
parse_track(input) ==
  Only({ [kind |-> r[1], id_or_raw |-> r[2],
          id |-> CorrectKind(r[1], r[2], track)] :
         r \in { extract_id_from_input(val) : val \in {Strip(input)} } })

\* Lines 198-205 of api_blacklist_playlist.
parse_playlist(input) ==
  Only({ [kind |-> r[1], id_or_raw |-> r[2],
          id |-> CorrectKind(r[1], r[2], playlist)] :
         r \in { extract_id_from_input(val) : val \in {Strip(input)} } })

\* The two parses, tabulated over Inputs (computed once).
ParsedTrack == [i \in Inputs |-> parse_track(i)] @@ <<>>
ParsedPlaylist == [i \in Inputs |-> parse_playlist(i)] @@ <<>>

api_blacklist_track(input, cat, db) ==
  LET p == ParsedTrack[input]
      track_id == p.id
      got == EnrichResult(cat) = "returned"
      st == StoreStep(db)
  IN IF ~Truthy(track_id)
     THEN Rejected("track", input, TRUE, db, p,
                   "Could not parse track id")
     ELSE [ep |-> "track", input |-> input, flag |-> TRUE, db |-> db,
           kind |-> p.kind, id_or_raw |-> p.id_or_raw, id |-> track_id,
           enrich |-> EnrichResult(cat),
           name |-> IF got THEN cat.name ELSE None,
           artist_id |-> IF got /\ cat.artists # <<>>
                         THEN cat.artists[1].id ELSE None,
           artist_name |-> IF got /\ cat.artists # <<>>
                           THEN cat.artists[1].name ELSE None,
           owner |-> None,
           status |-> st.status, ok |-> st.ok, error |-> st.error,
           ensured |-> st.ensured, wrote |-> st.wrote,
           conflict |-> st.wrote /\ track_id \in DOMAIN songs]

api_blacklist_playlist(input, flag, cat, db) ==
  LET p == ParsedPlaylist[input]
      playlist_id == p.id
      got == EnrichResult(cat) = "returned"
      st == StoreStep(db)
  IN IF ~Truthy(playlist_id)
     THEN Rejected("playlist", input, flag, db, p,
                   "Could not parse playlist id")
     ELSE [ep |-> "playlist", input |-> input, flag |-> flag, db |-> db,
           kind |-> p.kind, id_or_raw |-> p.id_or_raw, id |-> playlist_id,
           enrich |-> EnrichResult(cat),
           name |-> IF got THEN cat.name ELSE None,
           artist_id |-> None, artist_name |-> None, owner |-> None,
           status |-> st.status, ok |-> st.ok, error |-> st.error,
           ensured |-> st.ensured, wrote |-> st.wrote,
           conflict |-> st.wrote /\ playlist_id \in DOMAIN playlists]

\* The condition of line 237, for a candidate_id that is a string.
LooksLikePlaylist(maybe_kind, candidate_id) ==
  \/ maybe_kind = playlist
  \/ ~Truthy(maybe_kind) /\ SPOTIFY_ID_RE_search(candidate_id) # None

\* Lines 232-237 of api_whitelist_profile: val, maybe_kind, maybe_id, whether
\* evaluating the condition of line 237 raises (SPOTIFY_ID_RE.search(None)
\* is a TypeError) and, if not, its value.
SearchRaises(maybe_kind, candidate_id) ==
  maybe_kind # playlist /\ ~Truthy(maybe_kind) /\ candidate_id = None

parse_profile(input) ==
  Only({ [kind |-> r[1], id_or_raw |-> r[2],
          raises |-> SearchRaises(r[1], r[2]),
          lookup |-> ~SearchRaises(r[1], r[2])
                       /\ LooksLikePlaylist(r[1], r[2])] :
         r \in { extract_id_from_input(val) : val \in {Strip(input)} } })

ParsedProfile == [i \in Inputs |-> parse_profile(i)] @@ <<>>

\* plist.get("owner") or {} ... owner.get("id")
OwnerId(cat) == IF cat.owner # <<>> THEN cat.owner[1].id ELSE None

\* The owner redirect mutated: a failed lookup loses the candidate.
OwnerRedirect_lossy(lookup, maybe_id, cat) ==
  IF lookup /\ sp = "Spotify"
  THEN IF cat.ok /\ Truthy(OwnerId(cat)) THEN OwnerId(cat) ELSE None
  ELSE maybe_id

\* The owner redirect mutated: the owner is looked up and not used.
OwnerRedirect_unused(lookup, maybe_id, cat) == maybe_id

\* candidate_id after lines 237-246 of api_whitelist_profile; lookup is the
\* condition of line 237.
OwnerRedirect(lookup, maybe_id, cat) ==
  IF lookup /\ sp = "Spotify" /\ cat.ok /\ Truthy(OwnerId(cat))
  THEN OwnerId(cat)
  ELSE maybe_id

api_whitelist_profile(input, cat, db) ==
  LET p == ParsedProfile[input]
      called == p.lookup /\ sp = "Spotify"
      candidate_id == OwnerRedirect(p.lookup, p.id_or_raw, cat)
      enrich == IF called THEN EnrichResult(cat)
                ELSE IF sp = "Spotify" THEN "notcalled" ELSE "disabled"
      st == StoreStep(db)
  IN IF p.raises
     THEN \* The TypeError is caught by nothing: the framework answers 500
          \* with no JSON body.
          [ep |-> "whitelist", input |-> input, flag |-> TRUE, db |-> db,
           kind |-> p.kind, id_or_raw |-> p.id_or_raw, id |-> None,
           enrich |-> "notcalled",
           name |-> None, artist_id |-> None, artist_name |-> None,
           owner |-> None,
           status |-> 500, ok |-> "none", error |-> "Internal Server Error",
           ensured |-> FALSE, wrote |-> FALSE, conflict |-> FALSE]
     ELSE IF ~Truthy(candidate_id)
     THEN [ep |-> "whitelist", input |-> input, flag |-> TRUE, db |-> db,
           kind |-> p.kind, id_or_raw |-> p.id_or_raw, id |-> candidate_id,
           enrich |-> enrich,
           name |-> None, artist_id |-> None, artist_name |-> None,
           owner |-> None,
           status |-> 400, ok |-> "false",
           error |-> "Could not parse profile or playlist owner id",
           ensured |-> FALSE, wrote |-> FALSE, conflict |-> FALSE]
     ELSE [ep |-> "whitelist", input |-> input, flag |-> TRUE, db |-> db,
           kind |-> p.kind, id_or_raw |-> p.id_or_raw, id |-> candidate_id,
           enrich |-> enrich,
           name |-> None, artist_id |-> None, artist_name |-> None,
           owner |-> IF called /\ cat.ok THEN OwnerId(cat) ELSE None,
           status |-> st.status, ok |-> st.ok, error |-> st.error,
           ensured |-> st.ensured, wrote |-> st.wrote,
           conflict |-> st.wrote /\ candidate_id \in DOMAIN profiles]

Serving == proc = "serving" /\ nreq < MaxRequests

ApiBlacklistTrack ==
  /\ Serving
  /\ \E input \in Inputs, cat \in TrackOutcomes, db \in DbStates :
       LET r == api_blacklist_track(input, cat, db)
       IN /\ last' = r
          /\ tablesCreated' = IF r.ensured THEN ensure_tables(tablesCreated)
                              ELSE tablesCreated
          /\ songs' = IF r.wrote
                      THEN upsert_blacklisted_song(songs, r.id, r.name,
                             r.artist_id, r.artist_name, TRUE, now)
                      ELSE songs
  /\ nreq' = nreq + 1
  /\ UNCHANGED <<proc, boot, sp, now, playlists, profiles>>

ApiBlacklistPlaylist ==
  /\ Serving
  /\ \E input \in Inputs, flag \in BOOLEAN, cat \in PlaylistOutcomes,
        db \in DbStates :
       LET r == api_blacklist_playlist(input, flag, cat, db)
       IN /\ last' = r
          /\ tablesCreated' = IF r.ensured THEN ensure_tables(tablesCreated)
                              ELSE tablesCreated
          /\ playlists' = IF r.wrote
                          THEN upsert_user_playlist_blacklist(playlists,
                                 r.id, r.name, r.flag, now)
                          ELSE playlists
  /\ nreq' = nreq + 1
  /\ UNCHANGED <<proc, boot, sp, now, songs, profiles>>

ApiWhitelistProfile ==
  /\ Serving
  /\ \E input \in Inputs, cat \in PlaylistOutcomes, db \in DbStates :
       LET r == api_whitelist_profile(input, cat, db)
       IN /\ last' = r
          /\ tablesCreated' = IF r.ensured THEN ensure_tables(tablesCreated)
                              ELSE tablesCreated
          /\ profiles' = IF r.wrote
                         THEN upsert_whitelisted_profile(profiles, r.id, now)
                         ELSE profiles
  /\ nreq' = nreq + 1
  /\ UNCHANGED <<proc, boot, sp, now, songs, playlists>>

Next ==
  \/ Startup
  \/ Tick
  \/ ApiBlacklistTrack
  \/ ApiBlacklistPlaylist
  \/ ApiWhitelistProfile

Spec == Init /\ [][Next]_vars

----------------------------------------------------------------------------
\* The store's operations on their own: any sequence of upsert calls, with
\* the clock moving between them.

StoreCall(op, id, name, artist_id, artist_name, flag, conflict) ==
  [ep |-> op, input |-> <<>>, flag |-> flag, db |-> "ok",
   kind |-> None, id_or_raw |-> None, id |-> id, enrich |-> "notcalled",
   name |-> name, artist_id |-> artist_id, artist_name |-> artist_name,
   owner |-> None, status |-> 0, ok |-> "none", error |-> "",
   ensured |-> FALSE, wrote |-> TRUE, conflict |-> conflict]

UpsertBlacklistedSong ==
  /\ nreq < MaxUpserts
  /\ \E song_id \in StoreIds, a \in SongArgs, fixed \in BOOLEAN :
       /\ songs' = upsert_blacklisted_song(songs, song_id, a[1], a[2], a[3],
                                           fixed, now)
       /\ last' = StoreCall("upsert_song", song_id, a[1], a[2], a[3], fixed,
                            song_id \in DOMAIN songs)
  /\ nreq' = nreq + 1
  /\ UNCHANGED <<proc, boot, sp, now, tablesCreated, playlists, profiles>>

UpsertUserPlaylistBlacklist ==
  /\ nreq < MaxUpserts
  /\ \E playlist_id \in StoreIds, playlist_name \in PlaylistNames,
        blacklisted \in BOOLEAN :
       /\ playlists' = upsert_user_playlist_blacklist(playlists, playlist_id,
                         playlist_name, blacklisted, now)
       /\ last' = StoreCall("upsert_playlist", playlist_id, playlist_name,
                            None, None, blacklisted,
                            playlist_id \in DOMAIN playlists)
  /\ nreq' = nreq + 1
  /\ UNCHANGED <<proc, boot, sp, now, tablesCreated, songs, profiles>>

UpsertWhitelistedProfile ==
  /\ nreq < MaxUpserts
  /\ \E profile_id \in StoreIds :
       /\ profiles' = upsert_whitelisted_profile(profiles, profile_id, now)
       /\ last' = StoreCall("upsert_profile", profile_id, None, None, None,
                            TRUE, profile_id \in DOMAIN profiles)
  /\ nreq' = nreq + 1
  /\ UNCHANGED <<proc, boot, sp, now, tablesCreated, songs, playlists>>

StoreNext ==
  \/ Tick
  \/ UpsertBlacklistedSong
  \/ UpsertUserPlaylistBlacklist
  \/ UpsertWhitelistedProfile

SpecStore == Init /\ [][StoreNext]_vars

----------------------------------------------------------------------------
\* Properties.

Endpoints == {"track", "playlist", "whitelist"}

\* A step that serves a request or executes an upsert.
Served == nreq' # nreq

StoredOrNone(tbl, id, field) ==
  IF id \in DOMAIN tbl THEN tbl[id][field] ELSE None

\* The value the merge rule gives a display field after an upsert.
Merged(incoming, tbl, id, field) ==
  IF incoming # None THEN incoming ELSE StoredOrNone(tbl, id, field)

\* No display field of a row of tbl is non-null before the step and null
\* after it.
KeepsNonNull(tbl, tblAfter, fields) ==
  \A id \in DOMAIN tbl : \A f \in fields :
    tbl[id][f] # None => id \in DOMAIN tblAfter /\ tblAfter[id][f] # None

\* C1: every upsert of a song or a playlist leaves each display field equal
\* to the incoming value when that is non-null and to the stored value when
\* it is null, and no step turns a stored non-null display field into null.
C1_MergeRule ==
  [][ /\ Served /\ last'.ep = "upsert_song" =>
           /\ songs'[last'.id].song_name
                = Merged(last'.name, songs, last'.id, "song_name")
           /\ songs'[last'.id].artist_id
                = Merged(last'.artist_id, songs, last'.id, "artist_id")
           /\ songs'[last'.id].artist_name
                = Merged(last'.artist_name, songs, last'.id, "artist_name")
      /\ Served /\ last'.ep = "upsert_playlist" =>
           playlists'[last'.id].playlist_name
             = Merged(last'.name, playlists, last'.id, "playlist_name")
      /\ KeepsNonNull(songs, songs',
                      {"song_name", "artist_id", "artist_name"})
      /\ KeepsNonNull(playlists, playlists', {"playlist_name"})
    ]_vars

\* An upsert with a null song_name has hit a row whose song_name is stored.
C1_Witness ==
  /\ last.ep = "upsert_song"
  /\ last.conflict
  /\ last.name = None
  /\ songs[last.id].song_name # None

\* C2 as stated: every playlist upsert stores the flag of the call and
\* leaves updated_at strictly greater than it was before the call.
C2_StrictlyIncreases ==
  [][ Served /\ last'.ep = "upsert_playlist" =>
        /\ playlists'[last'.id].blacklisted = last'.flag
        /\ last'.id \in DOMAIN playlists =>
             playlists'[last'.id].updated_at
               > playlists[last'.id].updated_at
    ]_vars

\* C2 amended: every playlist upsert stores the flag of the call and sets
\* updated_at to the reading NOW() gives at the call, so updated_at is
\* greater than before exactly when that reading is later than the stored
\* one.
C2_LastWriterWins ==
  [][ Served /\ last'.ep = "upsert_playlist" =>
        /\ playlists'[last'.id].blacklisted = last'.flag
        /\ playlists'[last'.id].updated_at = now
        /\ last'.id \in DOMAIN playlists =>
             (playlists'[last'.id].updated_at
                > playlists[last'.id].updated_at
              <=> now > playlists[last'.id].updated_at)
    ]_vars

\* A playlist upsert with blacklisted = false has hit an existing row at a
\* later clock reading than the row was created at.
C2_Witness ==
  /\ last.ep = "upsert_playlist"
  /\ last.conflict
  /\ ~last.flag
  /\ ~playlists[last.id].blacklisted
  /\ playlists[last.id].updated_at = now
  /\ now > 0

\* C3: no step changes created_at of an existing song row, changes an
\* existing profile row at all, or removes a row of any table.
C3_CreationImmutable ==
  [][ /\ \A id \in DOMAIN songs :
           /\ id \in DOMAIN songs'
           /\ songs'[id].created_at = songs[id].created_at
      /\ \A id \in DOMAIN profiles :
           id \in DOMAIN profiles' /\ profiles'[id] = profiles[id]
      /\ DOMAIN playlists \subseteq DOMAIN playlists'
    ]_vars

\* A profile has been whitelisted again at a later clock reading.
C3_Witness ==
  /\ last.ep = "upsert_profile"
  /\ last.conflict
  /\ profiles[last.id].added_at < now

\* The inputs that are empty once stripped.
EmptyInputs == {i \in Inputs : Strip(i) = <<>>}

\* C4: a request with an empty input is answered 400 with ok:false and
\* writes nothing, at every endpoint.
C4_EmptyInputRejected ==
  last.ep \in Endpoints /\ last.input \in EmptyInputs =>
    last.status = 400 /\ last.ok = "false" /\ ~last.wrote

\* C5 as stated: with no store connection every request is answered 500
\* "DB unavailable".
C5_AlwaysDbUnavailable ==
  last.ep \in Endpoints /\ last.db = "down" =>
    last.status = 500 /\ last.error = "DB unavailable"

\* C5 amended: with no store connection a request is answered 500
\* "DB unavailable" exactly when its input yields a non-empty id; nothing is
\* written.
C5_DbUnavailable ==
  last.ep \in Endpoints /\ last.db = "down" =>
    /\ Truthy(last.id) <=>
         (last.status = 500 /\ last.error = "DB unavailable")
    /\ last.ok # "true"
    /\ ~last.wrote

\* A request with a usable id has met a store without connection.
C5_Witness ==
  /\ last.ep \in Endpoints
  /\ last.db = "down"
  /\ Truthy(last.id)
  /\ last.status = 500
  /\ last.error = "DB unavailable"

\* The table an endpoint writes.
TableAfter(ep) ==
  IF ep = "track" THEN songs'
  ELSE IF ep = "playlist" THEN playlists' ELSE profiles'

\* C6: a request whose input resolves to a non-empty id, served with a
\* working store, is answered 200 and its row is written, whatever the
\* catalog call does; when the client is disabled or the call raises, the
\* incoming metadata is null (the stored display fields stay as they were)
\* and the profile written is the resolved id.
C6_BestEffortEnrichment ==
  [][ Served /\ last'.ep \in Endpoints /\ Truthy(last'.id_or_raw)
        /\ last'.db = "ok" =>
        /\ last'.status = 200 /\ last'.ok = "true" /\ last'.wrote
        /\ last'.id \in DOMAIN TableAfter(last'.ep)
        /\ last'.enrich \in {"disabled", "raised"} =>
             /\ last'.name = None /\ last'.artist_id = None
             /\ last'.artist_name = None /\ last'.owner = None
             /\ last'.ep = "track" =>
                  /\ songs'[last'.id].song_name
                       = StoredOrNone(songs, last'.id, "song_name")
                  /\ songs'[last'.id].artist_id
                       = StoredOrNone(songs, last'.id, "artist_id")
                  /\ songs'[last'.id].artist_name
                       = StoredOrNone(songs, last'.id, "artist_name")
             /\ last'.ep = "playlist" =>
                  playlists'[last'.id].playlist_name
                    = StoredOrNone(playlists, last'.id, "playlist_name")
             /\ last'.ep = "whitelist" => last'.id = last'.id_or_raw
    ]_vars

\* A catalog call raised and the request was still answered 200 with its
\* row written.
C6_Witness ==
  /\ last.ep \in Endpoints
  /\ last.enrich = "raised"
  /\ last.status = 200
  /\ last.wrote

\* C7: a whitelist request whose input resolves to a playlist, for which
\* the catalog returns owner P1 and the store works, writes the row P1 and
\* adds no other row.
C7_OwnerRedirect ==
  [][ Served /\ last'.ep = "whitelist" /\ last'.kind = playlist
        /\ last'.owner = P1 /\ last'.db = "ok" =>
        /\ last'.id = P1
        /\ last'.status = 200 /\ last'.wrote
        /\ DOMAIN profiles' = DOMAIN profiles \cup {P1}
        /\ last'.id_or_raw \notin DOMAIN profiles' \ DOMAIN profiles
    ]_vars

\* A playlist input has been whitelisted as its owner P1, and the playlist
\* id is no key of the table.
C7_Witness ==
  /\ last.ep = "whitelist"
  /\ last.kind = playlist
  /\ last.id_or_raw = ID_A
  /\ last.owner = P1
  /\ last.wrote
  /\ P1 \in DOMAIN profiles
  /\ ID_A \notin DOMAIN profiles

\* A catalog call was attempted.
CatalogCalled(r) == r.enrich \in {"raised", "returned"}

\* C8 as stated: when SpotifyOAuth raises or the initial token refresh
\* raises, the client is disabled and no request attempts a catalog call.
C8_DisabledOnAnyFailure ==
  proc = "serving" /\ (boot.oauth = "raises" \/ boot.refresh = "raises") =>
    sp = "None" /\ ~CatalogCalled(last)

\* C8 amended: _sp never changes once the process serves; when SpotifyOAuth
\* raises the client is disabled and no request attempts a catalog call;
\* when only the initial token refresh raises the client is enabled.
C8_DecidedOnce ==
  [][ /\ proc = "serving" => sp' = sp
      /\ boot'.oauth = "raises" => sp' = "None" /\ ~CatalogCalled(last')
      /\ boot'.oauth = "ok" => sp' = "Spotify"
    ]_vars

\* With the client disabled by a failed construction a track request has
\* been served and written without a catalog call.
C8_Witness ==
  /\ boot.oauth = "raises"
  /\ sp = "None"
  /\ last.ep = "track"
  /\ last.enrich = "disabled"
  /\ last.wrote

\* The kind tokens an endpoint expects; the code of api_whitelist_profile
\* names none, Spotify's token for profiles is "user".
profile == <<"p","r","o","f","i","l","e">>
ExpectedKinds(ep) ==
  IF ep = "track" THEN {track}
  ELSE IF ep = "playlist" THEN {playlist} ELSE {user, profile}

\* The resolver returned a present kind the endpoint does not expect, and
\* the id holds a run of IdLen alphanumeric characters.
Mismatch(r) ==
  /\ Truthy(r.kind)
  /\ r.kind \notin ExpectedKinds(r.ep)
  /\ SPOTIFY_ID_RE_search(r.id_or_raw) # None

\* C9 as stated: at every endpoint a mismatched kind makes the run found in
\* the resolved id the id that is used.
C9_EverySiteCorrects ==
  last.ep \in Endpoints /\ Mismatch(last) =>
    last.id = SPOTIFY_ID_RE_search(last.id_or_raw)

\* C9 amended: blacklist_track and blacklist_playlist use the run found in
\* the resolved id when the kind is present and mismatched, and the resolved
\* id otherwise; whitelist_profile applies no such correction: it uses the
\* resolved id, or the playlist owner's id when the catalog returned one.
C9_TwoSitesCorrect ==
  /\ last.ep \in {"track", "playlist"} =>
       last.id = IF Mismatch(last)
                 THEN SPOTIFY_ID_RE_search(last.id_or_raw)
                 ELSE last.id_or_raw
  /\ last.ep = "whitelist" =>
       last.id = IF Truthy(last.owner) THEN last.owner ELSE last.id_or_raw

\* blacklist_playlist, given a track URI whose id token is longer than IdLen,
\* has used the run of IdLen characters found in it.
C9_Witness ==
  /\ last.ep = "playlist"
  /\ last.kind = track
  /\ last.id_or_raw = ID_LONG
  /\ last.id = ID_A

\* A token: a non-empty string of alphanumeric characters.
IsToken(s) == s # <<>> /\ \A j \in 1..Len(s) : s[j] \in Alnum

\* The segments <<scheme, kind, id22>> of an input of the form
\* scheme:kind:id22, or <<>> for an input of another form.
UriSegments(parts) ==
  IF /\ Len(parts) = 3
     /\ IsToken(parts[1]) /\ IsToken(parts[2]) /\ IsToken(parts[3])
     /\ Len(parts[3]) = IdLen
  THEN parts ELSE <<>>

UriForm ==
  [i \in Inputs |->
     Only({ UriSegments(parts) :
            parts \in { Split(v, ":") : v \in {Strip(i)} } })] @@ <<>>

\* C10 as stated: for every input scheme:kind:id22 the resolver returns
\* (kind, id22).
C10_AnyScheme ==
  last.ep \in Endpoints /\ UriForm[last.input] # <<>> =>
    /\ last.kind = UriForm[last.input][2]
    /\ last.id_or_raw = UriForm[last.input][3]

\* C10 amended: for every input spotify:kind:id22 the resolver returns
\* (kind, id22).
C10_SpotifyScheme ==
  last.ep \in Endpoints /\ UriForm[last.input] # <<>>
    /\ UriForm[last.input][1] = spotify =>
    /\ last.kind = UriForm[last.input][2]
    /\ last.id_or_raw = UriForm[last.input][3]

\* The resolver has been applied to spotify:track:<id>.
C10_Witness ==
  /\ last.ep \in Endpoints
  /\ last.input = spotify \o <<":">> \o track \o <<":">> \o ID_A
  /\ last.kind = track
  /\ last.id_or_raw = ID_A

====
